---- MODULE Spec2Model ----
(***************************************************************************)
(* Model of the patch-evaluation pipeline of LLM-Code-Repair:              *)
(*   src/src/evaluate/evaluate_patches.py   the concurrent evaluator       *)
(*   src/validate/validate_patches.py       the per-bug validator variant  *)
(*   src/src/report/report_metrics.py       the metrics aggregator         *)
(*                                                                         *)
(* Python semantics assumed: CPython >= 3.11, where                        *)
(* concurrent.futures.TimeoutError is the builtin TimeoutError, so the     *)
(* handler at evaluate_patches.py:121 catches the deadline of               *)
(* future.result(timeout=...).                                             *)
(***************************************************************************)
EXTENDS Integers, Sequences, FiniteSets, TLC

\* ------------------------------------------------------------------------
\* Bounds of the explored inputs
\* ------------------------------------------------------------------------
NumBugs == 2        \* bug identifiers in the bug dataset
NumPrompts == 2     \* prompts per bug, at most
NumPatches == 2     \* candidate patches per prompt, at most
MaxUnits == 2       \* evaluation units in one run, at most
MaxThreads == 2     \* args.t ranges over 1..MaxThreads

BugIds == 1..NumBugs

\* ------------------------------------------------------------------------
\* Helpers
\* ------------------------------------------------------------------------
RECURSIVE SumSeq(_)
SumSeq(s) == IF s = <<>> THEN 0 ELSE Head(s) + SumSeq(Tail(s))

SeqsUpTo(S, n) == UNION {[1..k -> S] : k \in 0..n}

Range(s) == {s[k] : k \in DOMAIN s}

Perms(S) == {q \in [1..Cardinality(S) -> S] : Range(q) = S}

\* ------------------------------------------------------------------------
\* Data model of evaluate_patches.py
\* ------------------------------------------------------------------------
\* EvaluationResult (evaluate_patches.py:22-27)
EvaluationResult ==
    {"plausible", "failing", "uncompilable", "failed_test_execution", "timeout"}

\* A patch dataset: patches[bug_id] is the list of prompts, abstracted to the
\* number of candidate patches of each prompt (every prompt explored here has
\* at least one candidate; a bug may have no prompt).
PatchDatasets ==
    {p \in [BugIds -> SeqsUpTo(1..NumPatches, NumPrompts)] :
        SumSeq([k \in 1..NumBugs |-> SumSeq(p[k])]) <= MaxUnits}

\* The (bug, prompt_index, patch_index) triples enumerated by
\* create_evaluation_queue; indices are 0-based as enumerate() yields them.
UnitsOf(p) ==
    {<<b, i, j>> \in BugIds \X (0..NumPrompts - 1) \X (0..NumPatches - 1) :
        /\ i < Len(p[b])
        /\ j < p[b][i + 1]}

\* create_evaluation_queue: all units, in the order random.shuffle leaves.
create_evaluation_queue(p) == Perms(UnitsOf(p))

VARIABLES
    patches,            \* the patch dataset loaded by main
    number_of_threads,  \* args.t
    queue,              \* patch_evaluation_queue
    mainPc,             \* position of main
    idx,                \* index in queue of the unit main is handling
    raised,             \* the exception that left main's with block, or "none"
    wpc,                \* per unit: position of the worker running evaluate()
    future,             \* per unit: state of PatchEvaluation.future
    result,             \* per unit: PatchEvaluation.result
    compileExit,        \* per unit: how the compile subprocess ended
    testExit,           \* per unit: how the test subprocess ended
    report,             \* per unit: what reading failing_tests gave
    fsError,            \* per unit: phase in which a filesystem error was raised
    waitTimedOut,       \* per unit: future.result(timeout) deadline elapsed
    checkout_lock,      \* per bug: Unlocked or the unit holding the lock
    original,           \* per bug: state of the original_directory
    checkouts,          \* per bug: number of checkout commands invoked
    clone,              \* per unit: state of the clone_directory
    files               \* result files under results_path

evalVars == <<patches, number_of_threads, queue, mainPc, idx, raised, wpc,
              future, result, compileExit, testExit, report, fsError,
              waitTimedOut, checkout_lock, original, checkouts, clone, files>>

\* State of one application of apply_patch to the target file of a workspace
VARIABLES
    file_before,        \* content of the target file before apply_patch
    file_content,       \* content of the target file now
    first_line,         \* replacement locus, 1-based inclusive
    last_line,
    function,           \* the patch text (Patch.function / all_patches[i])
    applied             \* "no", or the implementation that rewrote the file

patchVars == <<file_before, file_content, first_line, last_line, function,
               applied>>

\* State of one run of get_project_sum_rr over a project's results
VARIABLES
    project_results,    \* per prompt directory: os.listdir of its plausible
                        \* subdirectory, <<>> when there is none
    rr_sum,             \* returned sum of reciprocal ranks, <<num, den>>
    attempts,           \* returned number of prompt directories
    computed            \* get_project_sum_rr has returned

reportVars == <<project_results, rr_sum, attempts, computed>>

\* State of one run of compute_plausible_patch_frequency over the results root
VARIABLES
    results_root,       \* per project, per prompt directory: the names of
                        \* the outcome subdirectories os.listdir gives
    plausible_patch_frequencies,  \* returned: per project, <<num, den>>
    total_frequency,    \* returned: the entry 'total', <<num, den>>
    frequency_computed  \* compute_plausible_patch_frequency has returned

freqVars == <<results_root, plausible_patch_frequencies, total_frequency,
              frequency_computed>>

\* State of validate_patches.main while it validates the patches of one bug
VARIABLES
    all_patches,        \* len(all_patches): patch indices are 0..all_patches-1
    validator_threads,  \* number_of_threads
    validator_patches,  \* per thread: the patch indices handed to it
    vpc,                \* per thread: position in validate_patch
    vpos,               \* per thread: index in its list of the current patch
    deadline_exceeded,  \* patch indices whose compile exceeded the deadline
    written,            \* files under validation_results: <<result, index>>
    joined              \* main has joined every validator thread

valVars == <<all_patches, validator_threads, validator_patches, vpc, vpos,
             deadline_exceeded, written, joined>>

vars == <<evalVars, patchVars, reportVars, freqVars, valVars>>

Units == UnitsOf(patches)

\* A threading.Lock nobody holds.
Unlocked == <<>>

BugOf(u) == u[1]

\* No file under consideration by the apply_patch development.
PatchIdle ==
    /\ file_before = <<>>
    /\ file_content = <<>>
    /\ first_line = 1
    /\ last_line = 1
    /\ function = <<>>
    /\ applied = "no"

\* No results tree under consideration by the metrics development.
ReportIdle ==
    /\ project_results = <<>>
    /\ rr_sum = <<0, 1>>
    /\ attempts = 0
    /\ computed = FALSE

\* No results root under consideration by the frequency development.
FreqIdle ==
    /\ results_root = <<>>
    /\ plausible_patch_frequencies = <<>>
    /\ total_frequency = <<0, 1>>
    /\ frequency_computed = FALSE

\* No bug under validation.
ValIdle ==
    /\ all_patches = 0
    /\ validator_threads = 1
    /\ validator_patches = <<>>
    /\ vpc = <<>>
    /\ vpos = <<>>
    /\ deadline_exceeded = {}
    /\ written = {}
    /\ joined = FALSE

Init ==
    /\ PatchIdle
    /\ ReportIdle
    /\ FreqIdle
    /\ ValIdle
    /\ patches \in PatchDatasets
    /\ number_of_threads \in 1..MaxThreads
    /\ queue \in create_evaluation_queue(patches)
    /\ mainPc = "submit"
    /\ idx = 1
    /\ raised = "none"
    /\ wpc = [u \in Units |-> "new"]
    /\ future = [u \in Units |-> "pending"]
    /\ result = [u \in Units |-> "None"]
    /\ compileExit = [u \in Units |-> "none"]
    /\ testExit = [u \in Units |-> "none"]
    /\ report = [u \in Units |-> "none"]
    /\ fsError = [u \in Units |-> "none"]
    /\ waitTimedOut = [u \in Units |-> FALSE]
    /\ checkout_lock = [b \in BugIds |-> Unlocked]
    /\ original = [b \in BugIds |-> "absent"]
    /\ checkouts = [b \in BugIds |-> 0]
    /\ clone = [u \in Units |-> "absent"]
    /\ files = {}

\* ------------------------------------------------------------------------
\* Worker side: PatchEvaluation.evaluate, run by a ThreadPoolExecutor thread
\* ------------------------------------------------------------------------
Pos(u) == CHOOSE k \in DOMAIN queue : queue[k] = u

\* Units whose evaluate() is executing on a pool thread.
Running == {u \in Units : wpc[u] \notin {"new", "pending", "done"}}

\* The future completes: with the value passes_tests() returned, or with the
\* exception that left evaluate().
Finish(u, outcome) ==
    /\ wpc' = [wpc EXCEPT ![u] = "done"]
    /\ future' = [future EXCEPT ![u] = outcome]

\* Mutant of evaluate: a new thread is started for every pending work item,
\* whatever max_workers says.
evaluate_unbounded(u) ==
    /\ wpc[u] = "pending"
    /\ \A v \in Units : wpc[v] = "pending" => Pos(u) <= Pos(v)
    /\ wpc' = [wpc EXCEPT ![u] = "copy_project"]
    /\ UNCHANGED <<patches, number_of_threads, queue, mainPc, idx, raised,
                   future, result, compileExit, testExit, report, fsError,
                   waitTimedOut, checkout_lock, original, checkouts, clone,
                   files>>

\* A pool thread takes the oldest pending work item (the executor's work
\* queue is FIFO and at most max_workers threads exist) and enters evaluate().
evaluate(u) ==
    /\ wpc[u] = "pending"
    /\ Cardinality(Running) < number_of_threads
    /\ \A v \in Units : wpc[v] = "pending" => Pos(u) <= Pos(v)
    /\ wpc' = [wpc EXCEPT ![u] = "copy_project"]
    /\ UNCHANGED <<patches, number_of_threads, queue, mainPc, idx, raised,
                   future, result, compileExit, testExit, report, fsError,
                   waitTimedOut, checkout_lock, original, checkouts, clone,
                   files>>

\* copy_project, lines 67-69: acquire the bug's lock and test for the
\* original directory.  When it exists the with block is left at once;
\* otherwise the checkout command is started while the lock is held.
copy_project(u) ==
    /\ wpc[u] = "copy_project"
    /\ checkout_lock[BugOf(u)] = Unlocked
    /\ IF original[BugOf(u)] # "absent"
       THEN /\ wpc' = [wpc EXCEPT ![u] = "copytree"]
            /\ UNCHANGED <<checkout_lock, checkouts>>
       ELSE /\ wpc' = [wpc EXCEPT ![u] = "checkout_project"]
            /\ checkout_lock' = [checkout_lock EXCEPT ![BugOf(u)] = u]
            /\ checkouts' = [checkouts EXCEPT ![BugOf(u)] = @ + 1]
    /\ UNCHANGED <<patches, number_of_threads, queue, mainPc, idx, raised,
                   future, result, compileExit, testExit, report, fsError,
                   waitTimedOut, original, clone, files>>

\* Mutant of checkout_project: the lock is released on the success path only
\* (acquire/release without a with block).
checkout_project_keeps_lock(u) ==
    /\ wpc[u] = "checkout_project"
    /\ \/ /\ original' = [original EXCEPT ![BugOf(u)] = "present"]
          /\ checkout_lock' = [checkout_lock EXCEPT ![BugOf(u)] = Unlocked]
          /\ wpc' = [wpc EXCEPT ![u] = "copytree"]
          /\ UNCHANGED future
       \/ /\ \E left \in {"absent", "partial"} :
                original' = [original EXCEPT ![BugOf(u)] = left]
          /\ Finish(u, "CheckoutException")
          /\ UNCHANGED checkout_lock
    /\ UNCHANGED <<patches, number_of_threads, queue, mainPc, idx, raised,
                   result, compileExit, testExit, report, fsError,
                   waitTimedOut, checkouts, clone, files>>

\* checkout_project: the defects4j checkout command returns.  Exit status 0
\* leaves the original directory in place; a nonzero status raises Exception
\* out of evaluate(), and the tool may or may not have left a directory
\* behind.  Leaving the with block releases the lock either way.
checkout_project(u) ==
    /\ wpc[u] = "checkout_project"
    /\ checkout_lock' = [checkout_lock EXCEPT ![BugOf(u)] = Unlocked]
    /\ \/ /\ original' = [original EXCEPT ![BugOf(u)] = "present"]
          /\ wpc' = [wpc EXCEPT ![u] = "copytree"]
          /\ UNCHANGED future
       \/ /\ \E left \in {"absent", "partial"} :
                original' = [original EXCEPT ![BugOf(u)] = left]
          /\ Finish(u, "CheckoutException")
    /\ UNCHANGED <<patches, number_of_threads, queue, mainPc, idx, raised,
                   result, compileExit, testExit, report, fsError,
                   waitTimedOut, checkouts, clone, files>>

\* copy_project, line 70: shutil.copytree(original, clone, dirs_exist_ok=True).
copytree(u) ==
    /\ wpc[u] = "copytree"
    /\ \/ /\ clone' = [clone EXCEPT ![u] = "present"]
          /\ wpc' = [wpc EXCEPT ![u] = "apply_patch"]
          /\ UNCHANGED <<future, fsError>>
       \/ /\ fsError' = [fsError EXCEPT ![u] = "clone"]
          /\ Finish(u, "OSError")
          /\ UNCHANGED clone
    /\ UNCHANGED <<patches, number_of_threads, queue, mainPc, idx, raised,
                   result, compileExit, testExit, report, waitTimedOut,
                   checkout_lock, original, checkouts, files>>

\* apply_patch inside the pipeline: open() of the target file fails when the
\* clone directory is gone or the file is not in it.
apply_patch_step(u) ==
    /\ wpc[u] = "apply_patch"
    /\ \/ /\ clone[u] = "present"
          /\ wpc' = [wpc EXCEPT ![u] = "compile_project"]
          /\ UNCHANGED <<future, fsError>>
       \/ /\ fsError' = [fsError EXCEPT ![u] = "apply"]
          /\ Finish(u, "OSError")
    /\ UNCHANGED <<patches, number_of_threads, queue, mainPc, idx, raised,
                   result, compileExit, testExit, report, waitTimedOut,
                   checkout_lock, original, checkouts, clone, files>>

\* How subprocess.run(command, timeout=10 * 60) can end.
SubprocessEnds == {"zero", "nonzero", "timeout"}

compile_project(u) ==
    /\ wpc[u] = "compile_project"
    /\ \E rc \in SubprocessEnds :
          /\ compileExit' = [compileExit EXCEPT ![u] = rc]
          /\ CASE rc = "zero" -> /\ wpc' = [wpc EXCEPT ![u] = "test_project"]
                                 /\ UNCHANGED future
               [] rc = "nonzero" -> Finish(u, "CompileError")
               [] rc = "timeout" -> Finish(u, "TimeoutExpired")
    /\ UNCHANGED <<patches, number_of_threads, queue, mainPc, idx, raised,
                   result, testExit, report, fsError, waitTimedOut,
                   checkout_lock, original, checkouts, clone, files>>

test_project(u) ==
    /\ wpc[u] = "test_project"
    /\ \E rc \in SubprocessEnds :
          /\ testExit' = [testExit EXCEPT ![u] = rc]
          /\ CASE rc = "zero" -> /\ wpc' = [wpc EXCEPT ![u] = "passes_tests"]
                                 /\ UNCHANGED future
               [] rc = "nonzero" -> Finish(u, "TestError")
               [] rc = "timeout" -> Finish(u, "TimeoutExpired")
    /\ UNCHANGED <<patches, number_of_threads, queue, mainPc, idx, raised,
                   result, compileExit, report, fsError, waitTimedOut,
                   checkout_lock, original, checkouts, clone, files>>

\* passes_tests: read the failing_tests report; f.read() == "".
passes_tests(u) ==
    /\ wpc[u] = "passes_tests"
    /\ \/ \E content \in {"empty", "nonempty"} :
             /\ report' = [report EXCEPT ![u] = content]
             /\ Finish(u, IF content = "empty" THEN "True" ELSE "False")
             /\ UNCHANGED fsError
       \/ /\ fsError' = [fsError EXCEPT ![u] = "report"]
          /\ Finish(u, "OSError")
          /\ UNCHANGED report
    /\ UNCHANGED <<patches, number_of_threads, queue, mainPc, idx, raised,
                   result, compileExit, testExit, waitTimedOut,
                   checkout_lock, original, checkouts, clone, files>>

\* ------------------------------------------------------------------------
\* Driver side: main and the PatchEvaluation methods it calls
\* ------------------------------------------------------------------------
\* main, lines 160-161: patch_evaluation.start(executor) for each queue entry.
start(u) ==
    /\ mainPc = "submit"
    /\ idx <= Len(queue)
    /\ u = queue[idx]
    /\ wpc' = [wpc EXCEPT ![u] = "pending"]
    /\ IF idx < Len(queue)
       THEN /\ idx' = idx + 1
            /\ UNCHANGED mainPc
       ELSE /\ idx' = 1
            /\ mainPc' = "await"
    /\ UNCHANGED <<patches, number_of_threads, queue, raised, future, result,
                   compileExit, testExit, report, fsError, waitTimedOut,
                   checkout_lock, original, checkouts, clone, files>>

\* Mutant of Classify: the TestError handler assigns the CompileError outcome.
ClassifySwapped(got) ==
    CASE got = "True" -> "plausible"
      [] got = "False" -> "failing"
      [] got \in {"CompileError", "TestError"} -> "uncompilable"
      [] got \in {"TimeoutError", "TimeoutExpired"} -> "timeout"
      [] OTHER -> "raise"

\* Mutant of Classify: the deadline of future.result is not among the handled
\* exceptions (only subprocess.TimeoutExpired is).
ClassifyNoDeadline(got) ==
    CASE got = "True" -> "plausible"
      [] got = "False" -> "failing"
      [] got = "CompileError" -> "uncompilable"
      [] got = "TestError" -> "failed_test_execution"
      [] got = "TimeoutExpired" -> "timeout"
      [] OTHER -> "raise"

\* The try/except of await_result applied to what future.result(timeout)
\* gives: a returned value, a raised exception, or "TimeoutError" when the
\* deadline elapsed.  "raise" stands for an exception no handler matches.
Classify(got) ==
    CASE got = "True" -> "plausible"
      [] got = "False" -> "failing"
      [] got = "CompileError" -> "uncompilable"
      [] got = "TestError" -> "failed_test_execution"
      [] got \in {"TimeoutError", "TimeoutExpired"} -> "timeout"
      [] OTHER -> "raise"

\* What future.result(timeout=15*60) can give in the current state: the
\* outcome of a completed future, or TimeoutError for one that is not done.
FutureResult(u) ==
    IF future[u] = "pending" THEN "TimeoutError" ELSE future[u]

\* The 15 minutes of future.result can pass without the future completing
\* while the unit's evaluate() is executing, or while the unit waits in the
\* work queue with every pool thread busy.
DeadlineCanElapse(u) ==
    \/ u \in Running
    \/ wpc[u] = "pending" /\ Cardinality(Running) >= number_of_threads

await_result(u) ==
    /\ mainPc = "await"
    /\ u = queue[idx]
    /\ future[u] # "pending" \/ DeadlineCanElapse(u)
    /\ LET got == FutureResult(u) IN
          /\ waitTimedOut' = [waitTimedOut EXCEPT ![u] = (got = "TimeoutError")]
          /\ IF Classify(got) = "raise"
             THEN /\ raised' = got
                  /\ mainPc' = "exit_raise"
                  /\ UNCHANGED result
             ELSE /\ result' = [result EXCEPT ![u] = Classify(got)]
                  /\ mainPc' = "write"
                  /\ UNCHANGED raised
    /\ UNCHANGED <<patches, number_of_threads, queue, idx, wpc, future,
                   compileExit, testExit, report, fsError, checkout_lock,
                   original, checkouts, clone, files>>

\* The path write_result builds:
\* results/<project>/<number>/prompt-<i>/<result.value>/patch-<j>.txt
ResultPath(u, value) ==
    [bug |-> u[1], prompt |-> u[2], outcome |-> value, patch |-> u[3]]

\* Mutant of write_result: nothing is written for a unit classified timeout.
write_result_skips_timeout(u) ==
    /\ mainPc = "write"
    /\ u = queue[idx]
    /\ files' = IF result[u] = "timeout" THEN files
                ELSE files \cup {ResultPath(u, result[u])}
    /\ mainPc' = "clean"
    /\ UNCHANGED <<patches, number_of_threads, queue, idx, raised, wpc, future,
                   result, compileExit, testExit, report, fsError,
                   waitTimedOut, checkout_lock, original, checkouts, clone>>

write_result(u) ==
    /\ mainPc = "write"
    /\ u = queue[idx]
    /\ files' = files \cup {ResultPath(u, result[u])}
    /\ mainPc' = "clean"
    /\ UNCHANGED <<patches, number_of_threads, queue, idx, raised, wpc, future,
                   result, compileExit, testExit, report, fsError,
                   waitTimedOut, checkout_lock, original, checkouts, clone>>

\* Mutant of clean: a unit classified timeout is awaited again instead of
\* the loop moving on.
clean_reawait(u) ==
    /\ mainPc = "clean"
    /\ u = queue[idx]
    /\ clone' = [clone EXCEPT ![u] = "absent"]
    /\ IF result[u] = "timeout" \/ idx < Len(queue)
       THEN /\ idx' = IF result[u] = "timeout" THEN idx ELSE idx + 1
            /\ mainPc' = "await"
       ELSE /\ mainPc' = "shutdown"
            /\ UNCHANGED idx
    /\ UNCHANGED <<patches, number_of_threads, queue, raised, wpc, future,
                   result, compileExit, testExit, report, fsError,
                   waitTimedOut, checkout_lock, original, checkouts, files>>

\* clean: safe_remove(self.clone_directory); then the for loop advances.
clean(u) ==
    /\ mainPc = "clean"
    /\ u = queue[idx]
    /\ clone' = [clone EXCEPT ![u] = "absent"]
    /\ IF idx < Len(queue)
       THEN /\ idx' = idx + 1
            /\ mainPc' = "await"
       ELSE /\ mainPc' = "shutdown"
            /\ UNCHANGED idx
    /\ UNCHANGED <<patches, number_of_threads, queue, raised, wpc, future,
                   result, compileExit, testExit, report, fsError,
                   waitTimedOut, checkout_lock, original, checkouts, files>>

\* Leaving the with block: ThreadPoolExecutor.__exit__ is shutdown(wait=True),
\* which returns once every submitted work item has run to completion.  An
\* exception raised inside the block then propagates out of main.
executor_exit ==
    /\ \/ mainPc \in {"shutdown", "exit_raise"}
       \/ mainPc = "submit" /\ queue = <<>>
    /\ \A u \in Units : wpc[u] = "done"
    /\ mainPc' = IF raised = "none" THEN "remove" ELSE "crashed"
    /\ UNCHANGED <<patches, number_of_threads, queue, idx, raised, wpc, future,
                   result, compileExit, testExit, report, fsError,
                   waitTimedOut, checkout_lock, original, checkouts, clone,
                   files>>

\* main, line 168: safe_remove(working_directory) deletes every original and
\* every clone directory.
safe_remove_working_directory ==
    /\ mainPc = "remove"
    /\ original' = [b \in BugIds |-> "absent"]
    /\ clone' = [u \in Units |-> "absent"]
    /\ mainPc' = "done"
    /\ UNCHANGED <<patches, number_of_threads, queue, idx, raised, wpc, future,
                   result, compileExit, testExit, report, fsError,
                   waitTimedOut, checkout_lock, checkouts, files>>

Worker(u) ==
    \/ evaluate(u)
    \/ copy_project(u)
    \/ checkout_project(u)
    \/ copytree(u)
    \/ apply_patch_step(u)
    \/ compile_project(u)
    \/ test_project(u)
    \/ passes_tests(u)

Driver ==
    \/ \E u \in Units : start(u)
    \/ \E u \in Units : await_result(u)
    \/ \E u \in Units : write_result(u)
    \/ \E u \in Units : clean(u)
    \/ executor_exit
    \/ safe_remove_working_directory

WorkerStep(u) ==
    Worker(u) /\ UNCHANGED <<patchVars, reportVars, freqVars, valVars>>

DriverStep ==
    Driver /\ UNCHANGED <<patchVars, reportVars, freqVars, valVars>>

Next ==
    \/ \E u \in Units : WorkerStep(u)
    \/ DriverStep

Spec == Init /\ [][Next]_vars

\* The pool threads and the main thread all keep being scheduled.
FairSpec ==
    /\ Spec
    /\ \A b \in BugIds : \A i \in 0..NumPrompts - 1 : \A j \in 0..NumPatches - 1 :
          WF_vars(<<b, i, j>> \in Units /\ WorkerStep(<<b, i, j>>))
    /\ WF_vars(DriverStep)

TypeOK ==
    /\ patches \in PatchDatasets
    /\ queue \in create_evaluation_queue(patches)
    /\ mainPc \in {"submit", "await", "write", "clean", "shutdown",
                   "exit_raise", "remove", "done", "crashed"}
    /\ \A u \in Units : result[u] \in EvaluationResult \cup {"None"}
    /\ Cardinality(Running) <= number_of_threads

\* ------------------------------------------------------------------------
\* Properties of the evaluation pipeline
\* ------------------------------------------------------------------------
RunEnded == mainPc \in {"done", "crashed"}

UnitsOfBug(b) == {u \in Units : BugOf(u) = b}

\* Result files of unit u, over all outcome subdirectories.
FilesOf(u) ==
    {f \in files : f.bug = u[1] /\ f.prompt = u[2] /\ f.patch = u[3]}

Persisted(u) == result[u] # "None" /\ ResultPath(u, result[u]) \in files

\* C1: once the run has ended, every bug's prompt directories hold exactly as
\* many result files as the bug has candidates, and every candidate is in
\* exactly one outcome subdirectory.
C1_NoCandidateLostOrDuplicated ==
    RunEnded =>
        /\ \A b \in BugIds :
              Cardinality({f \in files : f.bug = b}) = Cardinality(UnitsOfBug(b))
        /\ \A u \in Units : Cardinality(FilesOf(u)) = 1

\* C2: the checkout command is invoked at most once per bug identifier.
C2_CheckoutAtMostOnce ==
    \A b \in BugIds : checkouts[b] <= 1

\* The classification table of the specification, read off a unit's
\* execution trace.
TableOutcome(u) ==
    CASE waitTimedOut[u] -> "timeout"
      [] compileExit[u] = "nonzero" -> "uncompilable"
      [] compileExit[u] = "timeout" -> "timeout"
      [] testExit[u] = "nonzero" -> "failed_test_execution"
      [] testExit[u] = "timeout" -> "timeout"
      [] report[u] = "nonempty" -> "failing"
      [] report[u] = "empty" -> "plausible"
      [] OTHER -> "no outcome"

\* C3: a classified unit carries exactly the outcome the classification table
\* gives for its execution trace, and no other value is ever assigned.
C3_ClassificationTable ==
    \A u \in Units :
        /\ result[u] \in EvaluationResult \cup {"None"}
        /\ result[u] # "None" => result[u] = TableOutcome(u)

C3_Witness ==
    \E u, v \in Units :
        /\ result[u] = "failed_test_execution" /\ testExit[u] = "nonzero"
        /\ result[v] = "plausible" /\ report[v] = "empty"

\* C4: a result, once assigned, is never revised, and a unit's result file,
\* once written, is neither changed nor joined by a second one.
C4_ResultNeverRevised ==
    [][\A u \in Units :
          /\ result[u] # "None" => result'[u] = result[u]
          /\ FilesOf(u) # {} => FilesOf(u)' = FilesOf(u)]_vars

C4_Witness ==
    \E u \in Units :
        /\ waitTimedOut[u]
        /\ wpc[u] = "done"
        /\ future[u] \in {"True", "False", "CompileError", "TestError"}
        /\ result[u] = "timeout"
        /\ FilesOf(u) = {ResultPath(u, "timeout")}

\* C5: a unit whose wait deadline elapsed and whose compile phase failed is
\* classified timeout, not uncompilable.
C5_TimeoutPrecedence ==
    \A u \in Units :
        waitTimedOut[u] /\ compileExit[u] = "nonzero" =>
            /\ result[u] = "timeout"
            /\ \A f \in FilesOf(u) : f.outcome = "timeout"

C5_Witness ==
    \E u \in Units :
        /\ waitTimedOut[u]
        /\ compileExit[u] = "nonzero"
        /\ future[u] = "CompileError"
        /\ result[u] = "timeout"

CheckoutFailed(b) == \E v \in UnitsOfBug(b) : future[v] = "CheckoutException"

\* C6: a failed checkout of bug b stops b's units only: the run is not
\* crashed by it, and the units of every other bug are classified, persisted
\* and cleaned by the time the run has ended.
C6_CheckoutFailureIsolated ==
    \A b \in BugIds :
        CheckoutFailed(b) =>
            /\ raised # "CheckoutException"
            /\ RunEnded =>
                  \A u \in Units \ UnitsOfBug(b) :
                      Persisted(u) /\ clone[u] = "absent"

\* C7: a filesystem error of a unit never leaves main's await loop, and the
\* unit is never given the result plausible or failing.
C7_UnitErrorsCaught ==
    \A u \in Units :
        fsError[u] # "none" =>
            /\ result[u] \notin {"plausible", "failing"}
            /\ ~(raised = "OSError" /\ queue[idx] = u)

AllSettled ==
    /\ mainPc = "done"
    /\ \A u \in Units : Persisted(u) /\ clone[u] = "absent"

\* C8: under fair scheduling the run always completes: eventually main has
\* terminated with every unit classified, persisted and cleaned.
C8_RunAlwaysCompletes == <>AllSettled

\* The unit has not entered evaluate(): it is not submitted, or it waits in
\* the executor's work queue.
Queued(u) == wpc[u] \in {"new", "pending"}

\* C12: the phases follow one another in order: test_project runs only after
\* compile_project succeeded, reading the report only after the test command
\* succeeded, and a unit is classified only after it left the queue.
C12_PhaseOrder ==
    \A u \in Units :
        /\ wpc[u] \in {"test_project", "passes_tests"} => compileExit[u] = "zero"
        /\ wpc[u] = "passes_tests" => testExit[u] = "zero"
        /\ compileExit[u] # "none" => clone[u] = "present" \/ result[u] # "None"
        /\ result[u] # "None" => ~Queued(u)

CheckoutInFlight(b) == \E v \in UnitsOfBug(b) : wpc[v] = "checkout_project"

\* C13: at most one checkout per bug is in flight, and a worker copies from
\* the original directory only when no checkout of the bug is in flight and
\* a completed checkout has created the directory.
C13_CheckoutBeforeClone ==
    /\ \A b \in BugIds :
          Cardinality({v \in UnitsOfBug(b) : wpc[v] = "checkout_project"}) <= 1
    /\ \A u \in Units :
          wpc[u] = "copytree" =>
              /\ ~CheckoutInFlight(BugOf(u))
              /\ original[BugOf(u)] = "present"

\* C14: at most number_of_threads units are executing evaluate(), units
\* already classified timeout included; every other unfinished unit is queued.
C14_BoundedParallelism ==
    /\ Cardinality(Running) <= number_of_threads
    /\ \A u \in Units : wpc[u] # "done" /\ u \notin Running => Queued(u)

C14_Witness ==
    \E u, v \in Units :
        /\ u \in Running
        /\ result[u] = "timeout"
        /\ wpc[v] = "pending"
        /\ Cardinality(Running) = number_of_threads

\* main has called clean() for the unit.
CleanRan(u) ==
    /\ result[u] # "None"
    /\ \/ Pos(u) < idx
       \/ mainPc \in {"shutdown", "remove", "done"}

WaitingForLock(u) == u \in Units /\ wpc[u] = "copy_project"

\* C19: a bug's lock is held only by a worker whose checkout is running, so
\* it is free after a failed checkout, and under fair scheduling every
\* worker waiting for the lock gets past it (no worker waits forever: it is
\* always the case that eventually it is not waiting).
C19_LockAlwaysReleased ==
    /\ [](\A b \in BugIds :
            checkout_lock[b] # Unlocked =>
                /\ checkout_lock[b] \in UnitsOfBug(b)
                /\ wpc[checkout_lock[b]] = "checkout_project")
    /\ \A b \in BugIds : \A i \in 0..NumPrompts - 1 : \A j \in 0..NumPatches - 1 :
          []<>~WaitingForLock(<<b, i, j>>)

C19_Witness ==
    \E u, v \in Units :
        /\ u # v
        /\ BugOf(u) = BugOf(v)
        /\ future[v] = "CheckoutException"
        /\ checkout_lock[BugOf(v)] = Unlocked
        /\ wpc[u] \in {"checkout_project", "copytree"}

\* C20: once clean() has run for a unit its clone directory does not exist,
\* and no clone directory exists when main has returned.
C20_CleanIsFinal ==
    /\ \A u \in Units : CleanRan(u) => clone[u] = "absent"
    /\ mainPc = "done" => \A u \in Units : clone[u] = "absent"

\* ------------------------------------------------------------------------
\* apply_patch on file contents
\* (evaluate_patches.py:79-91 and validate_patches.py:52-65)
\* ------------------------------------------------------------------------
\* Texts are sequences of characters.
MaxFileLen == 4     \* characters in the target file, at most
MaxPatchLen == 3    \* characters in the patch text, at most

FileChars == {"a", "b", "\n"}

\* "\f" stands for the line boundaries str.splitlines knows besides "\n".
PatchChars == {"x", "\n", "\f"}

\* The text up to and including its first character in seps, or all of it.
RECURSIVE FirstLine(_, _)
FirstLine(text, seps) ==
    IF text = <<>> THEN <<>>
    ELSE IF Head(text) \in seps THEN <<Head(text)>>
    ELSE <<Head(text)>> \o FirstLine(Tail(text), seps)

\* Split after every character of seps, keeping it; no empty last piece.
RECURSIVE SplitKeepEnds(_, _)
SplitKeepEnds(text, seps) ==
    IF text = <<>> THEN <<>>
    ELSE LET line == FirstLine(text, seps) IN
         <<line>> \o SplitKeepEnds(SubSeq(text, Len(line) + 1, Len(text)), seps)

\* f.readlines() of a file opened in text mode: lines end at "\n".
readlines(text) == SplitKeepEnds(text, {"\n"})

\* str.splitlines(keepends=True): lines end at "\n" and at the other line
\* boundaries.
splitlines_keepends(text) == SplitKeepEnds(text, {"\n", "\f"})

\* f.writelines(lines): the lines are written one after the other.
RECURSIVE writelines(_)
writelines(lines) ==
    IF lines = <<>> THEN <<>> ELSE Head(lines) \o writelines(Tail(lines))

Min(a, b) == IF a <= b THEN a ELSE b

\* Python's lines[:n] and lines[n:] for n >= 0.
SliceTo(lines, n) == SubSeq(lines, 1, Min(n, Len(lines)))

\* Mutant of SliceFrom: the slice starts one line early (lines[n - 1:]).
SliceFromLineBefore(lines, n) ==
    SubSeq(lines, Min(n - 1, Len(lines)) + 1, Len(lines))

SliceFrom(lines, n) == SubSeq(lines, Min(n, Len(lines)) + 1, Len(lines))

\* PatchEvaluation.apply_patch: the new content of the target file.
apply_patch(content, first, last, text) ==
    LET lines == readlines(content)
        new_lines == SliceTo(lines, first - 1) \o splitlines_keepends(text)
                     \o SliceFrom(lines, last)
    IN writelines(new_lines)

\* Validator.apply_patch: the new content of the target file.
Validator_apply_patch(content, start_line, end_line, patch) ==
    LET lines == readlines(content)
        new_lines == SliceTo(lines, start_line - 1) \o splitlines_keepends(patch)
                     \o SliceFrom(lines, end_line)
    IN writelines(new_lines)

\* No evaluation run under consideration by the apply_patch development.
EvalIdle ==
    /\ patches = [b \in BugIds |-> <<>>]
    /\ number_of_threads = 1
    /\ queue = <<>>
    /\ mainPc = "idle"
    /\ idx = 1
    /\ raised = "none"
    /\ wpc = <<>>
    /\ future = <<>>
    /\ result = <<>>
    /\ compileExit = <<>>
    /\ testExit = <<>>
    /\ report = <<>>
    /\ fsError = <<>>
    /\ waitTimedOut = <<>>
    /\ checkout_lock = [b \in BugIds |-> Unlocked]
    /\ original = [b \in BugIds |-> "absent"]
    /\ checkouts = [b \in BugIds |-> 0]
    /\ clone = <<>>
    /\ files = {}

\* A target file, a locus whose first line is in the file and whose last line
\* is in the file or one past its end, and a patch text.
InitPatch ==
    /\ EvalIdle
    /\ ReportIdle
    /\ FreqIdle
    /\ ValIdle
    /\ file_before \in SeqsUpTo(FileChars, MaxFileLen)
    /\ file_content = file_before
    /\ first_line \in 1..Len(readlines(file_before))
    /\ last_line \in first_line..Len(readlines(file_before)) + 1
    /\ function \in SeqsUpTo(PatchChars, MaxPatchLen)
    /\ applied = "no"

PatchEvaluation_apply_patch ==
    /\ applied = "no"
    /\ file_content' = apply_patch(file_content, first_line, last_line, function)
    /\ applied' = "evaluate"
    /\ UNCHANGED <<file_before, first_line, last_line, function, evalVars,
                   reportVars, freqVars, valVars>>

Validator_apply_patch_step ==
    /\ applied = "no"
    /\ file_content' =
          Validator_apply_patch(file_content, first_line, last_line, function)
    /\ applied' = "validate"
    /\ UNCHANGED <<file_before, first_line, last_line, function, evalVars,
                   reportVars, freqVars, valVars>>

NextPatch ==
    \/ PatchEvaluation_apply_patch
    \/ Validator_apply_patch_step

SpecPatch == InitPatch /\ [][NextPatch]_vars

\* C9: for a locus inside the file and a patch text of K lines (counted as
\* the lines of a file are), the rewritten file has L - (l - f + 1) + K lines,
\* begins with the original lines 1..f-1 and ends with the original lines
\* l+1..L.
C9_ApplyPatchRoundTrip ==
    LET old == readlines(file_before)
        new == readlines(file_content)
        L == Len(old)
        K == Len(readlines(function))
    IN applied # "no" /\ last_line <= L =>
          /\ Len(new) = L - (last_line - first_line + 1) + K
          /\ \A k \in 1..first_line - 1 : new[k] = old[k]
          /\ \A k \in 1..L - last_line :
                new[Len(new) - (L - last_line) + k] = old[last_line + k]

\* C18: with a locus whose first line is in the file and whose last line is
\* the file's last line or beyond it, the rewritten file is the original
\* lines 1..first_line-1 followed by the patch text and nothing else.
C18_LocusPastEndDropsTail ==
    LET old == readlines(file_before) IN
    applied # "no" /\ last_line >= Len(old) =>
        /\ file_content = writelines(SubSeq(old, 1, first_line - 1)) \o function
        /\ readlines(file_content) =
              SubSeq(old, 1, first_line - 1) \o readlines(function)

C18_Witness ==
    /\ applied = "evaluate"
    /\ last_line > Len(readlines(file_before))
    /\ first_line = 2
    /\ Len(readlines(file_before)) >= 3
    /\ function # <<>>
    /\ file_content # file_before

\* ------------------------------------------------------------------------
\* Reciprocal ranks (report_metrics.py:59-72)
\* ------------------------------------------------------------------------
MaxPatchIndex == 2  \* patch indices of result files range over 0..MaxPatchIndex
MaxPlausible == 2   \* result files in one plausible subdirectory, at most
MaxPromptDirs == 2  \* prompt directories of the project, at most

DigitChars == <<"0", "1", "2", "3", "4", "5", "6", "7", "8", "9">>

\* str(n) for n >= 0, as the f-string of write_result formats patch_index.
RECURSIVE Str(_)
Str(n) ==
    IF n < 10 THEN <<DigitChars[n + 1]>>
    ELSE Str(n \div 10) \o <<DigitChars[(n % 10) + 1]>>

\* int(s) for a string of decimal digits.
RECURSIVE Int_(_)
Int_(s) ==
    LET d == CHOOSE v \in 0..9 : DigitChars[v + 1] = s[Len(s)] IN
    IF Len(s) = 1 THEN d ELSE 10 * Int_(SubSeq(s, 1, Len(s) - 1)) + d

\* f'patch-{patch_index}.txt', the file name write_result gives a result.
ResultFileName(patch_index) ==
    <<"p", "a", "t", "c", "h", "-">> \o Str(patch_index) \o <<".", "t", "x", "t">>

\* name[6:-4]
PatchNumberPart(name) == SubSeq(name, 7, Len(name) - 4)

\* Rationals as <<numerator, denominator>>; the floats of the code are taken
\* as exact.
FracAdd(x, y) == <<x[1] * y[2] + y[1] * x[2], x[2] * y[2]>>

FracEq(x, y) == x[1] * y[2] = y[1] * x[2]

\* Lines 64-68: rr of one prompt directory, from the listing of its
\* plausible subdirectory.
prompt_rr(plausible_listing) ==
    IF plausible_listing # <<>>
    THEN LET first_patch_number == Int_(PatchNumberPart(plausible_listing[1])) + 1
         IN <<1, first_patch_number>>
    ELSE <<0, 1>>

\* get_project_sum_rr: (rr_sum, attempts) over the project's prompt
\* directories, in listing order.
RECURSIVE get_project_sum_rr(_)
get_project_sum_rr(prompt_dirs) ==
    IF prompt_dirs = <<>> THEN [rr_sum |-> <<0, 1>>, attempts |-> 0]
    ELSE LET rest == get_project_sum_rr(Tail(prompt_dirs)) IN
         [rr_sum |-> FracAdd(prompt_rr(Head(prompt_dirs)), rest.rr_sum),
          attempts |-> rest.attempts + 1]

\* The listings os.listdir can return for a plausible subdirectory: the
\* result files of some patch indices, each once, in any order.
PlausibleListings ==
    {<<>>} \cup
    {[k \in DOMAIN q |-> ResultFileName(q[k])] :
        q \in {r \in SeqsUpTo(0..MaxPatchIndex, MaxPlausible) :
                  r # <<>> /\ \A m, n \in DOMAIN r : m # n => r[m] # r[n]}}

InitReport ==
    /\ EvalIdle
    /\ PatchIdle
    /\ FreqIdle
    /\ ValIdle
    /\ project_results \in SeqsUpTo(PlausibleListings, MaxPromptDirs) \ {<<>>}
    /\ rr_sum = <<0, 1>>
    /\ attempts = 0
    /\ computed = FALSE

get_project_sum_rr_step ==
    /\ ~computed
    /\ rr_sum' = get_project_sum_rr(project_results).rr_sum
    /\ attempts' = get_project_sum_rr(project_results).attempts
    /\ computed' = TRUE
    /\ UNCHANGED <<project_results, evalVars, patchVars, freqVars, valVars>>

NextReport == get_project_sum_rr_step

SpecReport == InitReport /\ [][NextReport]_vars

\* Patch indices of the result files in a listing.
IndicesIn(listing) == {Int_(PatchNumberPart(listing[k])) : k \in DOMAIN listing}

SmallestIn(S) == CHOOSE r \in S : \A x \in S : r <= x

\* 1/(r+1) for the smallest plausible patch index r, 0 without plausible
\* subdirectory.
ExpectedRR(listing) ==
    IF listing = <<>> THEN <<0, 1>> ELSE <<1, SmallestIn(IndicesIn(listing)) + 1>>

RECURSIVE ExpectedSum(_)
ExpectedSum(prompt_dirs) ==
    IF prompt_dirs = <<>> THEN <<0, 1>>
    ELSE FracAdd(ExpectedRR(Head(prompt_dirs)), ExpectedSum(Tail(prompt_dirs)))

\* C10: every prompt directory contributes 1/(r+1) for its smallest plausible
\* patch index r, or 0, whatever the order of the directory listing.
C10_ReciprocalRankOfSmallest ==
    computed =>
        /\ attempts = Len(project_results)
        /\ FracEq(rr_sum, ExpectedSum(project_results))
        /\ \A k \in DOMAIN project_results :
              FracEq(prompt_rr(project_results[k]), ExpectedRR(project_results[k]))

\* ------------------------------------------------------------------------
\* Plausible-patch frequency (report_metrics.py:20-43)
\* ------------------------------------------------------------------------
MaxProjects == 2    \* project directories under the results root, at most

\* Outcome subdirectories a prompt directory is explored with: "failing"
\* stands for every outcome other than plausible.  A prompt directory exists
\* only with a result in it, so it has at least one.
PromptDirListings == {{"plausible"}, {"failing"}, {"plausible", "failing"}}

\* Lines 39-41: the inner loop over the outcome subdirectories of a prompt.
plausible_in(prompt_dir) == Cardinality({r \in prompt_dir : r = "plausible"})

\* Mutant of get_plausible_counts: attempts is incremented inside the loop
\* over the outcome subdirectories.
RECURSIVE get_plausible_counts_per_result(_)
get_plausible_counts_per_result(project) ==
    IF project = <<>> THEN [plausible_patches |-> 0, attempts |-> 0]
    ELSE LET rest == get_plausible_counts_per_result(Tail(project)) IN
         [plausible_patches |-> rest.plausible_patches + plausible_in(Head(project)),
          attempts |-> rest.attempts + Cardinality(Head(project))]

\* get_plausible_counts: (plausible_patches, attempts) over the prompt
\* directories of all bugs of the project.
RECURSIVE get_plausible_counts(_)
get_plausible_counts(project) ==
    IF project = <<>> THEN [plausible_patches |-> 0, attempts |-> 0]
    ELSE LET rest == get_plausible_counts(Tail(project)) IN
         [plausible_patches |-> rest.plausible_patches + plausible_in(Head(project)),
          attempts |-> rest.attempts + 1]

\* Lines 22-28: the running totals over the projects.
RECURSIVE TotalCounts(_)
TotalCounts(root) ==
    IF root = <<>> THEN [plausible_patches |-> 0, attempts |-> 0]
    ELSE LET c == get_plausible_counts(Head(root))
             rest == TotalCounts(Tail(root))
         IN [plausible_patches |-> rest.plausible_patches + c.plausible_patches,
             attempts |-> rest.attempts + c.attempts]

\* compute_plausible_patch_frequency: the frequency of every project and the
\* entry 'total'.
compute_plausible_patch_frequency(root) ==
    [projects |->
        [k \in DOMAIN root |->
            <<get_plausible_counts(root[k]).plausible_patches,
              get_plausible_counts(root[k]).attempts>>],
     total |-> <<TotalCounts(root).plausible_patches, TotalCounts(root).attempts>>]

Projects == SeqsUpTo(PromptDirListings, MaxPromptDirs) \ {<<>>}

InitFrequency ==
    /\ EvalIdle
    /\ PatchIdle
    /\ ReportIdle
    /\ ValIdle
    /\ results_root \in SeqsUpTo(Projects, MaxProjects) \ {<<>>}
    /\ plausible_patch_frequencies = <<>>
    /\ total_frequency = <<0, 1>>
    /\ frequency_computed = FALSE

compute_plausible_patch_frequency_step ==
    /\ ~frequency_computed
    /\ plausible_patch_frequencies' =
          compute_plausible_patch_frequency(results_root).projects
    /\ total_frequency' = compute_plausible_patch_frequency(results_root).total
    /\ frequency_computed' = TRUE
    /\ UNCHANGED <<results_root, evalVars, patchVars, reportVars, valVars>>

NextFrequency == compute_plausible_patch_frequency_step

SpecFrequency == InitFrequency /\ [][NextFrequency]_vars

\* Prompt directories of a project that contain a plausible subdirectory.
WithPlausible(project) == {k \in DOMAIN project : "plausible" \in project[k]}

RECURSIVE SumOver(_, _)
SumOver(F(_), root) ==
    IF root = <<>> THEN 0 ELSE F(Head(root)) + SumOver(F, Tail(root))

NumWithPlausible(project) == Cardinality(WithPlausible(project))

\* C11: every project's frequency is (prompt directories with a plausible
\* subdirectory) / (prompt directories), and 'total' is the same ratio over
\* all projects.
C11_PlausiblePatchFrequency ==
    frequency_computed =>
        /\ \A k \in DOMAIN results_root :
              /\ plausible_patch_frequencies[k][2] > 0
              /\ FracEq(plausible_patch_frequencies[k],
                        <<NumWithPlausible(results_root[k]), Len(results_root[k])>>)
        /\ total_frequency[2] > 0
        /\ FracEq(total_frequency,
                  <<SumOver(NumWithPlausible, results_root), SumOver(Len, results_root)>>)

C11_Witness ==
    /\ frequency_computed
    /\ Len(results_root) = 2
    /\ plausible_patch_frequencies = <<<<1, 2>>, <<0, 1>>>>
    /\ total_frequency = <<1, 3>>

\* ------------------------------------------------------------------------
\* validate_patches.py: the validator threads of one bug (lines 26-48, 125-142)
\* ------------------------------------------------------------------------
MaxValPatches == 3  \* len(all_patches) of the bug, at most

ThreadIds == 1..validator_threads

PatchIndices == 0..all_patches - 1

\* Mutant of validator_patches_of: every validator is handed every patch index.
validator_patches_all(n, t) == [th \in 1..t |-> [k \in 1..n |-> k - 1]]

\* Lines 131-132: validator_patches[patch_index % number_of_threads] gets
\* patch_index, in increasing order.  Thread th of 1..t is list th - 1.
validator_patches_of(n, t) ==
    [th \in 1..t |->
        [k \in 1..Cardinality({i \in 0..n - 1 : i % t = th - 1}) |->
            (th - 1) + (k - 1) * t]]

\* The patch the validator thread is in validate_patch for.
patch_index(th) == validator_patches[th][vpos[th]]

\* f'patch-{patch_index}' under the working directory (lines 58, 68, 75).
patch_directory(i) == <<"patch-">> \o Str(i)

\* evaluate_patches.py:53, relative to the working directory.
clone_directory(u) ==
    <<BugOf(u), "clones", <<"prompt-">> \o Str(u[2]), <<"patch-">> \o Str(u[3])>>

\* Lines 98-139 for one bug: the lists are built and every thread is started.
InitValidate ==
    /\ EvalIdle
    /\ PatchIdle
    /\ ReportIdle
    /\ FreqIdle
    /\ all_patches \in 0..MaxValPatches
    /\ validator_threads \in 1..MaxThreads
    /\ validator_patches = validator_patches_of(all_patches, validator_threads)
    /\ vpos = [th \in ThreadIds |-> 1]
    /\ vpc = [th \in ThreadIds |->
                IF validator_patches[th] = <<>> THEN "finished" ELSE "apply_patch"]
    /\ deadline_exceeded = {}
    /\ written = {}
    /\ joined = FALSE

\* write_patch: the file <result>/patch-<patch_index> is (over)written.
write_patch(i, outcome) == written' = written \cup {<<outcome, i>>}

\* validate_patch returns; validate_patches goes on with its next index.
ValidateNext(th) ==
    IF vpos[th] < Len(validator_patches[th])
    THEN /\ vpos' = [vpos EXCEPT ![th] = @ + 1]
         /\ vpc' = [vpc EXCEPT ![th] = "apply_patch"]
    ELSE /\ vpos' = vpos
         /\ vpc' = [vpc EXCEPT ![th] = "finished"]

\* Line 31.
validate_patch_apply(th) ==
    /\ vpc[th] = "apply_patch"
    /\ vpc' = [vpc EXCEPT ![th] = "compile"]
    /\ UNCHANGED <<vpos, deadline_exceeded, written>>

\* Lines 32-40: the compile runs in a one-worker executor and is awaited for
\* 15 minutes.  It returns, raises Exception (non-zero exit), or the wait
\* raises TimeoutError; the with block then still waits for the compile to
\* end, whatever it ends with.
validate_patch_compile(th) ==
    /\ vpc[th] = "compile"
    /\ \/ /\ vpc' = [vpc EXCEPT ![th] = "test"]
          /\ UNCHANGED <<vpos, deadline_exceeded, written>>
       \/ /\ write_patch(patch_index(th), "uncompilable")
          /\ ValidateNext(th)
          /\ UNCHANGED deadline_exceeded
       \/ /\ write_patch(patch_index(th), "timeout")
          /\ deadline_exceeded' = deadline_exceeded \cup {patch_index(th)}
          /\ vpc' = [vpc EXCEPT ![th] = "test"]
          /\ UNCHANGED vpos

\* Line 42: test_defects4j_project raises Exception on a non-zero exit; nothing
\* catches it, so the thread ends.
validate_patch_test(th) ==
    /\ vpc[th] = "test"
    /\ \/ vpc' = [vpc EXCEPT ![th] = "failing_tests"]
       \/ vpc' = [vpc EXCEPT ![th] = "raised"]
    /\ UNCHANGED <<vpos, deadline_exceeded, written>>

\* Lines 43-48.
validate_patch_classify(th) ==
    /\ vpc[th] = "failing_tests"
    /\ \E failing_tests_output \in {"", "failing"} :
          IF failing_tests_output = ""
          THEN write_patch(patch_index(th), "plausible")
          ELSE write_patch(patch_index(th), "failing")
    /\ ValidateNext(th)
    /\ UNCHANGED deadline_exceeded

\* Lines 141-142.
join_validators ==
    /\ ~joined
    /\ \A th \in ThreadIds : vpc[th] \in {"finished", "raised"}
    /\ joined' = TRUE
    /\ UNCHANGED <<vpc, vpos, deadline_exceeded, written>>

ValidatorStep(th) ==
    /\ \/ validate_patch_apply(th)
       \/ validate_patch_compile(th)
       \/ validate_patch_test(th)
       \/ validate_patch_classify(th)
    /\ joined' = joined

NextValidate ==
    /\ \/ \E th \in ThreadIds : ValidatorStep(th)
       \/ join_validators
    /\ UNCHANGED <<all_patches, validator_threads, validator_patches,
                   evalVars, patchVars, reportVars, freqVars>>

SpecValidate == InitValidate /\ [][NextValidate]_vars

\* Outcome directories patch index i has a file in.
OutcomesOf(i) == {w[1] : w \in {x \in written : x[2] = i}}

\* C16: once every validator thread has ended, every patch index is in
\* exactly one outcome directory, and a patch whose compile exceeded the
\* deadline is in timeout only.
C16_ExactlyOneOutcome ==
    joined =>
        \A i \in PatchIndices :
            /\ Cardinality(OutcomesOf(i)) = 1
            /\ i \in deadline_exceeded => OutcomesOf(i) = {"timeout"}

\* A validator thread is inside validate_patch.
Validating(th) == vpc[th] \in {"apply_patch", "compile", "test", "failing_tests"}

\* C17: distinct units never have the same clone directory: the evaluator's
\* path is unique per (bug, prompt index, patch index); every patch index of
\* the validator is in the list of exactly one thread, and two threads are
\* never in validate_patch for the same patch directory.
C17_ExclusiveCloneDirectories ==
    /\ \A u, v \in BugIds \X (0..NumPrompts - 1) \X (0..NumPatches - 1) :
          u # v => clone_directory(u) # clone_directory(v)
    /\ \A i \in PatchIndices :
          Cardinality({th \in ThreadIds : i \in Range(validator_patches[th])}) = 1
    /\ \A th1, th2 \in ThreadIds :
          th1 # th2 /\ Validating(th1) /\ Validating(th2) =>
              patch_directory(patch_index(th1)) # patch_directory(patch_index(th2))

C17_Witness ==
    /\ validator_threads = 2
    /\ all_patches = 3
    /\ vpc[1] = "compile" /\ vpos[1] = 2
    /\ vpc[2] = "test"

====
